---- MODULE Spec2Model ----
(***************************************************************************)
(* Model of the POST /upload handler of src/src/index.ts: a request is     *)
(* received, the encryption client is initialised, the multipart form is   *)
(* parsed, the file is base64-encoded and encrypted, the envelope is       *)
(* uploaded to the object store, downloaded again, decrypted and written   *)
(* to the local uploads directory.  Every `await` of the handler is a      *)
(* suspension point, so concurrent requests interleave between the         *)
(* actions below.  The encryption client, the object store and the file    *)
(* system are external: each call nondeterministically returns, reports a  *)
(* failure, or throws.                                                     *)
(***************************************************************************)
EXTENDS Naturals, Sequences, FiniteSets, TLC

VARIABLES pc, form, base64String, encrypted, downloaded, decrypted,
          response, log, store, localFiles, issued, putCalls, uploadResult,
          wrote, storeWriter, localWriter, thrown

vars == <<pc, form, base64String, encrypted, downloaded, decrypted,
          response, log, store, localFiles, issued, putCalls, uploadResult,
          wrote, storeWriter, localWriter, thrown>>

(***************************************************************************)
(* Bounds of the model.                                                    *)
(***************************************************************************)
\* longest uploaded file, in bytes
MaxLen == 1

\* the concurrent requests the model follows
Requests == {"r1", "r2"}

\* the byte values files are made of
ByteVals == {0, 255}

\* the file names requests upload under
Names == {"a.txt", "b.txt"}

RECURSIVE SeqsUpTo(_, _)
SeqsUpTo(S, n) ==
  IF n = 0 THEN {<<>>}
  ELSE LET shorter == SeqsUpTo(S, n - 1)
       IN  shorter \cup {Append(s, x) : s \in {t \in shorter : Len(t) = n - 1}, x \in S}

Files == SeqsUpTo(ByteVals, MaxLen)

(***************************************************************************)
(* Buffer.from(arrayBuffer).toString('base64') and                         *)
(* Buffer.from(text, 'base64'): RFC 4648 base64 with padding, on           *)
(* sequences of bytes and sequences of characters.                         *)
(***************************************************************************)
Alphabet ==
  <<"A","B","C","D","E","F","G","H","I","J","K","L","M","N","O","P",
    "Q","R","S","T","U","V","W","X","Y","Z","a","b","c","d","e","f",
    "g","h","i","j","k","l","m","n","o","p","q","r","s","t","u","v",
    "w","x","y","z","0","1","2","3","4","5","6","7","8","9","+","/">>

Sextet(n) == Alphabet[(n % 64) + 1]

Index(c) == CHOOSE i \in 0..63 : Alphabet[i + 1] = c

RECURSIVE toBase64(_)
toBase64(bytes) ==
  IF Len(bytes) = 0 THEN <<>>
  ELSE IF Len(bytes) = 1 THEN
         LET n == bytes[1] * 16
         IN  <<Sextet(n \div 64), Sextet(n), "=", "=">>
  ELSE IF Len(bytes) = 2 THEN
         LET n == (bytes[1] * 256 + bytes[2]) * 4
         IN  <<Sextet(n \div 4096), Sextet(n \div 64), Sextet(n), "=">>
  ELSE LET n == bytes[1] * 65536 + bytes[2] * 256 + bytes[3]
       IN  <<Sextet(n \div 262144), Sextet(n \div 4096), Sextet(n \div 64), Sextet(n)>>
             \o toBase64(SubSeq(bytes, 4, Len(bytes)))

RECURSIVE fromBase64(_)
fromBase64(text) ==
  IF Len(text) < 4 THEN <<>>
  ELSE IF text[3] = "=" THEN
         LET n == Index(text[1]) * 64 + Index(text[2])
         IN  <<n \div 16>>
  ELSE IF text[4] = "=" THEN
         LET n == Index(text[1]) * 4096 + Index(text[2]) * 64 + Index(text[3])
         IN  <<n \div 1024, (n \div 4) % 256>>
  ELSE LET n == Index(text[1]) * 262144 + Index(text[2]) * 4096
                  + Index(text[3]) * 64 + Index(text[4])
       IN  <<n \div 65536, (n \div 256) % 256, n % 256>>
             \o fromBase64(SubSeq(text, 5, Len(text)))

(***************************************************************************)
(* The encryption client.  An envelope is opaque to the handler; the       *)
(* client is assumed to satisfy decrypt(encrypt(x)) = x.  Each encrypt     *)
(* call draws a fresh nonce, so two envelopes of one plaintext differ.     *)
(***************************************************************************)
EncryptData(nonce, plaintext) == [c |-> <<"#", nonce>> \o plaintext]

DecryptData(envelope) == SubSeq(envelope.c, 3, Len(envelope.c))

(***************************************************************************)
(* JSON.stringify(encrypted.data) and JSON.parse(downloadedText).          *)
(***************************************************************************)
JSONstringify(envelope) == <<"{", "c", ":">> \o envelope.c \o <<"}">>

JSONvalid(text) ==
  /\ Len(text) >= 4
  /\ text[1] = "{" /\ text[2] = "c" /\ text[3] = ":"
  /\ text[Len(text)] = "}"

JSONparse(text) == [c |-> SubSeq(text, 4, Len(text) - 1)]

\* a body that is not JSON (a truncated or foreign object)
Garbled == <<"<", "!", ">">>

(***************************************************************************)
(* Names of stored objects and local files.                                *)
(***************************************************************************)
StoredKey(name) == name \o ".encrypted"

LocalPath(name) == "uploads/" \o name

(***************************************************************************)
(* Values of the handler's locals before they are assigned.                *)
(***************************************************************************)
NoForm == [kind |-> "none", name |-> "", type |-> "", bytes |-> <<>>]
NoResult == [kind |-> "none", data |-> [c |-> <<>>]]
NoDownload == [kind |-> "none", body |-> <<>>]
NoText == [kind |-> "none", data |-> <<>>]

\* the multipart bodies a client can send
Forms ==
  {[kind |-> k, name |-> "", type |-> "", bytes |-> <<>>] : k \in {"malformed", "nofile", "string"}}
  \cup {[kind |-> "file", name |-> n, type |-> "text/plain", bytes |-> b] : n \in Names, b \in Files}

Init ==
  /\ pc = [r \in Requests |-> "idle"]
  /\ form = [r \in Requests |-> NoForm]
  /\ base64String = [r \in Requests |-> <<>>]
  /\ encrypted = [r \in Requests |-> NoResult]
  /\ downloaded = [r \in Requests |-> NoDownload]
  /\ decrypted = [r \in Requests |-> NoText]
  /\ response = [r \in Requests |-> <<>>]
  /\ log = [r \in Requests |-> <<>>]
  /\ store = [k \in {} |-> Garbled]
  /\ localFiles = [p \in {} |-> <<>>]
  /\ issued = {}
  /\ putCalls = {}
  /\ uploadResult = [r \in Requests |-> "none"]
  /\ wrote = [r \in Requests |-> <<>>]
  /\ storeWriter = [k \in {} |-> ""]
  /\ localWriter = [p \in {} |-> ""]
  /\ thrown = [r \in Requests |-> <<>>]

(***************************************************************************)
(* Responses of the handler.                                               *)
(***************************************************************************)
NoDetails == [name |-> "", type |-> "", size |-> 0]

ErrorResponse(status, error) ==
  [status |-> status, error |-> error, details |-> "", message |-> "", file |-> NoDetails]

\* variant: the catch block omits the status argument of c.json
CatchResponseDefaultStatus(message) ==
  [status |-> 200, error |-> "Failed to upload file", details |-> message,
   message |-> "", file |-> [name |-> "", type |-> "", size |-> 0]]

\* the catch block of the handler
CatchResponse(message) ==
  [status |-> 500, error |-> "Failed to upload file", details |-> message,
   message |-> "", file |-> NoDetails]

SuccessResponse(file) ==
  [status |-> 200, error |-> "", details |-> "", message |-> "File uploaded successfully",
   file |-> [name |-> file.name, type |-> file.type, size |-> Len(file.bytes)]]

\* c.json(...) returned from the handler: the request is answered and ends
Respond(r, resp) ==
  /\ response' = [response EXCEPT ![r] = Append(@, resp)]
  /\ pc' = [pc EXCEPT ![r] = "done"]
  /\ UNCHANGED thrown

\* an exception reaches the catch block, which answers the request
Throw(r, message) ==
  /\ thrown' = [thrown EXCEPT ![r] = Append(@, message)]
  /\ response' = [response EXCEPT ![r] = Append(@, CatchResponse(message))]
  /\ pc' = [pc EXCEPT ![r] = "done"]

\* the handler goes on to its next call
Continue(r, next) ==
  /\ pc' = [pc EXCEPT ![r] = next]
  /\ UNCHANGED <<response, thrown>>

Called(r, op) == log' = [log EXCEPT ![r] = Append(@, op)]

(***************************************************************************)
(* The conditions the handler branches on.                                 *)
(***************************************************************************)
\* !file || !(file instanceof File)
InvalidFile(f) == f.kind # "file"

\* variant: the failure indicator of encrypt is not looked at
EncryptFailedNever(result) == FALSE

\* 'failure' in encrypted
EncryptFailed(result) == result.kind = "failure"

\* variant: a missing download is not looked at
DownloadFailedNever(result) == FALSE

\* !downloadedFile
DownloadFailed(result) == result.kind = "null"

\* variant: the failure indicator of decrypt is not looked at
DecryptFailedNever(result) == FALSE

\* 'failure' in decrypted
DecryptFailed(result) == result.kind = "failure"

\* variant: the base64 text itself is handed to the store
UploadBodyBase64(r) == base64String[r]

\* the body of the object handed to the store
UploadBody(r) == JSONstringify(encrypted[r].data)

\* the bytes handed to writeFile
WriteBuffer(r) == fromBase64(decrypted[r].data)

(***************************************************************************)
(* A request arrives with a multipart body; the handler starts and calls   *)
(* protect().                                                              *)
(***************************************************************************)
Receive(r) ==
  /\ pc[r] = "idle"
  /\ \E f \in Forms : form' = [form EXCEPT ![r] = f]
  /\ pc' = [pc EXCEPT ![r] = "protect"]
  /\ UNCHANGED <<thrown, base64String, encrypted, downloaded, decrypted, response, log,
                 store, localFiles, issued, putCalls, uploadResult, wrote,
                 storeWriter, localWriter>>

\* await protect({ schemas: [uploads] })
Protect(r) ==
  /\ pc[r] = "protect"
  /\ Called(r, "protect")
  /\ \/ Continue(r, "formData")
     \/ Throw(r, "protect: initialisation failed")
  /\ UNCHANGED <<form, base64String, encrypted, downloaded, decrypted,
                 store, localFiles, issued, putCalls, uploadResult, wrote,
                 storeWriter, localWriter>>

\* await c.req.formData(), formData.get('file'), the check of the file and
\* its conversion to base64, up to the call of encrypt
FormData(r) ==
  /\ pc[r] = "formData"
  /\ Called(r, "formData")
  /\ IF form[r].kind = "malformed"
       THEN /\ Throw(r, "formData: malformed body")
            /\ UNCHANGED base64String
       ELSE IF InvalidFile(form[r])
       THEN /\ Respond(r, ErrorResponse(400, "No file provided or invalid file format"))
            /\ UNCHANGED base64String
       ELSE /\ base64String' = [base64String EXCEPT ![r] = toBase64(form[r].bytes)]
            /\ Continue(r, "encrypt")
  /\ UNCHANGED <<form, encrypted, downloaded, decrypted,
                 store, localFiles, issued, putCalls, uploadResult, wrote,
                 storeWriter, localWriter>>

\* await protectClient.encrypt(base64String, { table, column }) and the
\* check of its result
Encrypt(r) ==
  /\ pc[r] = "encrypt"
  /\ Called(r, "encrypt")
  /\ \E result \in {[kind |-> "data", data |-> EncryptData(r, base64String[r])],
                    [kind |-> "failure", data |-> NoResult.data],
                    [kind |-> "throw", data |-> NoResult.data]} :
       /\ encrypted' = [encrypted EXCEPT ![r] = result]
       /\ issued' = IF result.kind = "data" THEN issued \cup {result.data} ELSE issued
       /\ IF result.kind = "throw"
            THEN Throw(r, "encrypt: client error")
            ELSE IF EncryptFailed(result)
            THEN Respond(r, ErrorResponse(500, "Failed to encrypt file"))
            ELSE Continue(r, "upload")
  /\ UNCHANGED <<form, base64String, downloaded, decrypted,
                 store, localFiles, putCalls, uploadResult, wrote,
                 storeWriter, localWriter>>

\* variant: an upload that reports an error is tried again
AfterUploadRetry(outcome) == IF outcome = "error" THEN "upload" ELSE "download"

\* where the handler goes once the upload has returned { data, error }:
\* neither is looked at
AfterUpload(outcome) == "download"

\* await supabase.storage.from('uploads').upload(`${file.name}.encrypted`, fileToUpload)
Upload(r) ==
  LET key == StoredKey(form[r].name)
      object == [type |-> "application/json", body |-> UploadBody(r)]
  IN
  /\ pc[r] = "upload"
  /\ Called(r, "upload")
  /\ putCalls' = putCalls \cup {[key |-> key, type |-> object.type, body |-> object.body]}
  /\ \E outcome \in {"ok", "error", "throw"} :
       /\ uploadResult' = [uploadResult EXCEPT ![r] = outcome]
       /\ IF outcome = "ok"
            THEN /\ store' = [k \in DOMAIN store \cup {key} |->
                                IF k = key THEN object ELSE store[k]]
                 /\ storeWriter' = [k \in DOMAIN store \cup {key} |->
                                      IF k = key THEN r ELSE storeWriter[k]]
            ELSE UNCHANGED <<store, storeWriter>>
       /\ IF outcome = "throw"
            THEN Throw(r, "upload: network error")
            ELSE Continue(r, AfterUpload(outcome))
  /\ UNCHANGED <<form, base64String, encrypted, downloaded, decrypted,
                 localFiles, issued, wrote, localWriter>>

\* what the store can answer to download(key): the object it holds, no
\* object, an unreadable body, or an exception
DownloadResults(key) ==
  {[kind |-> "null", body |-> <<>>],
   [kind |-> "throw", body |-> <<>>],
   [kind |-> "data", body |-> Garbled]}
  \cup (IF key \in DOMAIN store
          THEN {[kind |-> "data", body |-> store[key].body]}
          ELSE {})

\* await supabase.storage.from('uploads').download(`${file.name}.encrypted`),
\* the check of its result, downloadedFile.text() and JSON.parse
Download(r) ==
  /\ pc[r] = "download"
  /\ Called(r, "download")
  /\ \E result \in DownloadResults(StoredKey(form[r].name)) :
       /\ downloaded' = [downloaded EXCEPT ![r] = result]
       /\ IF result.kind = "throw"
            THEN Throw(r, "download: network error")
            ELSE IF DownloadFailed(result)
            THEN Respond(r, ErrorResponse(500, "Failed to download file"))
            ELSE IF ~JSONvalid(result.body)
            THEN Throw(r, "JSON.parse: unexpected token")
            ELSE Continue(r, "decrypt")
  /\ UNCHANGED <<form, base64String, encrypted, decrypted,
                 store, localFiles, issued, putCalls, uploadResult, wrote,
                 storeWriter, localWriter>>

\* await protectClient.decrypt(downloadedJson) and the check of its result
Decrypt(r) ==
  LET downloadedJson == JSONparse(downloaded[r].body)
  IN
  /\ pc[r] = "decrypt"
  /\ Called(r, "decrypt")
  /\ \E result \in {[kind |-> "data", data |-> DecryptData(downloadedJson)],
                    [kind |-> "failure", data |-> <<>>],
                    [kind |-> "throw", data |-> <<>>]} :
       /\ decrypted' = [decrypted EXCEPT ![r] = result]
       /\ IF result.kind = "throw"
            THEN Throw(r, "decrypt: client error")
            ELSE IF DecryptFailed(result)
            THEN Respond(r, ErrorResponse(500, "Failed to decrypt file"))
            ELSE Continue(r, "writeFile")
  /\ UNCHANGED <<form, base64String, encrypted, downloaded,
                 store, localFiles, issued, putCalls, uploadResult, wrote,
                 storeWriter, localWriter>>

\* await writeFile(join(uploadsDir, file.name), buffer) and the success
\* response
WriteFile(r) ==
  LET path == LocalPath(form[r].name)
      buffer == WriteBuffer(r)
  IN
  /\ pc[r] = "writeFile"
  /\ Called(r, "writeFile")
  /\ \/ /\ localFiles' = [p \in DOMAIN localFiles \cup {path} |->
                            IF p = path THEN buffer ELSE localFiles[p]]
        /\ localWriter' = [p \in DOMAIN localFiles \cup {path} |->
                            IF p = path THEN r ELSE localWriter[p]]
        /\ wrote' = [wrote EXCEPT ![r] = Append(@, buffer)]
        /\ Respond(r, SuccessResponse(form[r]))
     \/ /\ Throw(r, "writeFile: ENOENT")
        /\ UNCHANGED <<localFiles, localWriter, wrote>>
  /\ UNCHANGED <<form, base64String, encrypted, downloaded, decrypted,
                 store, issued, putCalls, uploadResult, storeWriter>>

Next ==
  \E r \in Requests :
    \/ Receive(r)
    \/ Protect(r)
    \/ FormData(r)
    \/ Encrypt(r)
    \/ Upload(r)
    \/ Download(r)
    \/ Decrypt(r)
    \/ WriteFile(r)

Spec == Init /\ [][Next]_vars

\* every step of a started request is eventually taken: the event loop
\* resumes the handler once the awaited call has settled
Step(r) ==
  \/ Protect(r)
  \/ FormData(r)
  \/ Encrypt(r)
  \/ Upload(r)
  \/ Download(r)
  \/ Decrypt(r)
  \/ WriteFile(r)

FairSpec == Spec /\ \A r \in Requests : WF_vars(Step(r))

(***************************************************************************)
(* Properties.                                                             *)
(***************************************************************************)
Answered(r) == pc[r] = "done" /\ Len(response[r]) = 1

Status(r) == response[r][1].status

Did(r, op) == \E i \in 1..Len(log[r]) : log[r][i] = op

IsFile(r) == form[r].kind = "file"

HandlerOrder == <<"protect", "formData", "encrypt", "upload", "download", "decrypt", "writeFile">>

\* C1: every request answered with 200 wrote to uploads/<file.name> exactly
\* the bytes of the file it uploaded.
C1_RoundTrip ==
  \A r \in Requests :
    (Answered(r) /\ Status(r) = 200) => wrote[r] = <<form[r].bytes>>

\* C2: every object in the store, and every object ever handed to the
\* store's upload, is the JSON serialization of an envelope returned by a
\* successful encrypt call of a request, under the key <file.name>.encrypted
\* of that request; the base64 text is never handed to the store.
C2_StoreHoldsOnlyEnvelopes ==
  /\ \A k \in DOMAIN store :
       \E call \in putCalls : call.key = k /\ call.body = store[k].body
  /\ \A call \in putCalls :
       /\ \E r \in Requests :
            /\ encrypted[r].kind = "data"
            /\ encrypted[r].data \in issued
            /\ IsFile(r)
            /\ call.key = StoredKey(form[r].name)
            /\ call.body = JSONstringify(encrypted[r].data)
       /\ \E e \in issued : JSONvalid(call.body) /\ JSONparse(call.body) = e
       /\ \A r \in Requests : IsFile(r) => call.body # base64String[r]

C2_Witness ==
  \E r \in Requests :
    /\ uploadResult[r] = "ok"
    /\ StoredKey(form[r].name) \in DOMAIN store
    /\ Len(form[r].bytes) > 0

\* C3: a request whose encrypt call returned a failure indicator is answered
\* with 500 'Failed to encrypt file' and has performed no store upload, no
\* download, no decrypt and no local write.
C3_EncryptFailure ==
  \A r \in Requests :
    encrypted[r].kind = "failure" =>
      /\ Answered(r)
      /\ response[r][1] = ErrorResponse(500, "Failed to encrypt file")
      /\ log[r] = <<"protect", "formData", "encrypt">>
      /\ uploadResult[r] = "none"
      /\ wrote[r] = <<>>
      /\ \A k \in DOMAIN storeWriter : storeWriter[k] # r
      /\ \A p \in DOMAIN localWriter : localWriter[p] # r

C3_Witness == \E r \in Requests : encrypted[r].kind = "failure" /\ pc[r] = "done"

\* C4: a request without a 'file' field, or whose 'file' field is not a
\* File, is answered with 400 having made no external call, the
\* initialisation of the encryption client included.
C4_BadInputBeforeAnyCall ==
  \A r \in Requests :
    (form[r].kind \in {"nofile", "string"} /\ pc[r] = "done") =>
      /\ Len(response[r]) = 1
      /\ Status(r) = 400
      /\ ~Did(r, "protect")

\* C5: a request whose download returned no object is answered with 500
\* 'Failed to download file' and performs neither decrypt nor the local
\* write.
C5_DownloadFailure ==
  \A r \in Requests :
    downloaded[r].kind = "null" =>
      /\ Answered(r)
      /\ response[r][1] = ErrorResponse(500, "Failed to download file")
      /\ ~Did(r, "decrypt")
      /\ ~Did(r, "writeFile")
      /\ decrypted[r].kind = "none"
      /\ wrote[r] = <<>>

C5_Witness ==
  \E r \in Requests :
    /\ downloaded[r].kind = "null"
    /\ uploadResult[r] = "ok"
    /\ pc[r] = "done"

\* C6: a request whose decrypt call returned a failure indicator on a
\* parsed envelope is answered with 500 'Failed to decrypt file' and writes
\* no local file.
C6_DecryptFailure ==
  \A r \in Requests :
    decrypted[r].kind = "failure" =>
      /\ Answered(r)
      /\ response[r][1] = ErrorResponse(500, "Failed to decrypt file")
      /\ ~Did(r, "writeFile")
      /\ wrote[r] = <<>>
      /\ \A p \in DOMAIN localWriter : localWriter[p] # r

C6_Witness ==
  \E r \in Requests :
    /\ decrypted[r].kind = "failure"
    /\ JSONvalid(downloaded[r].body)
    /\ pc[r] = "done"
    /\ LocalPath(form[r].name) \in DOMAIN localFiles

C7_Safety ==
  \A r \in Requests :
    /\ Len(response[r]) <= 1
    /\ (pc[r] = "done") <=> (Len(response[r]) = 1)
    /\ Len(thrown[r]) <= 1
    /\ Answered(r) => Status(r) \in {200, 400, 500}
    /\ Len(thrown[r]) = 1 =>
         /\ Answered(r)
         /\ response[r][1].status = 500
         /\ response[r][1].error = "Failed to upload file"
         /\ response[r][1].details = thrown[r][1]
    /\ (Answered(r) /\ Status(r) = 200) =>
         /\ Len(log[r]) > 0
         /\ log[r][Len(log[r])] = "writeFile"
         /\ Len(wrote[r]) = 1
         /\ LocalPath(form[r].name) \in DOMAIN localFiles

C8_FailedUploadNever200 ==
  \A r \in Requests :
    (uploadResult[r] = "error" /\ Answered(r)) => Status(r) # 200

\* C9: once two requests that uploaded different files under one name have
\* both completed, the stored object is the envelope of the request whose
\* upload was performed last and the local file holds the bytes of the file
\* uploaded by the request whose local write was performed last.
C9_LastWriterWins ==
  \A a, b \in Requests :
    ( /\ a # b /\ IsFile(a) /\ IsFile(b)
      /\ form[a].name = form[b].name /\ form[a].bytes # form[b].bytes
      /\ pc[a] = "done" /\ pc[b] = "done" ) =>
        LET key == StoredKey(form[a].name)
            path == LocalPath(form[a].name)
        IN  /\ key \in DOMAIN store =>
                 store[key].body = JSONstringify(encrypted[storeWriter[key]].data)
            /\ path \in DOMAIN localFiles =>
                 localFiles[path] = form[localWriter[path]].bytes

IsPrefix(s, t) == Len(s) <= Len(t) /\ s = SubSeq(t, 1, Len(s))

\* C10: in every step, each request's external operations so far are an
\* initial part of the order protect, formData, encrypt, upload, download,
\* decrypt, writeFile (so none is repeated and none runs before its
\* predecessor has returned), a request that has been answered performs no
\* further operation, and no object is removed from the store.
C10_LinearOrder ==
  [][ /\ \A r \in Requests :
           /\ IsPrefix(log'[r], HandlerOrder)
           /\ IsPrefix(log[r], log'[r])
           /\ Len(log'[r]) <= Len(log[r]) + 1
           /\ pc[r] = "done" => (log'[r] = log[r] /\ pc'[r] = "done")
      /\ DOMAIN store \subseteq DOMAIN store' ]_vars

C10_Witness ==
  \E r \in Requests :
    /\ uploadResult[r] = "ok"
    /\ Answered(r) /\ Status(r) = 500
    /\ Did(r, "decrypt")
    /\ storeWriter[StoredKey(form[r].name)] = r
====
